---- MODULE Spec2Model ----
(***************************************************************************)
(* Model of the OpenAI MCP tool server (src/mcp_server.py).                *)
(*                                                                         *)
(* The process loads the module (which builds the global openai_client),   *)
(* runs main() (credential check, banner), performs the protocol handshake *)
(* inside server.run and then serves list_tools / call_tool requests until *)
(* the stream closes.  Every handler is a pair of operators: the part that *)
(* resolves the argument bundle into the backend call and the part that    *)
(* turns the backend's answer into the value the handler returns.          *)
(*                                                                         *)
(* Python values:                                                          *)
(*   str            a TLA+ string, f-strings are \o concatenations         *)
(*   Optional[str]  a sequence of at most one string (<<>> is None)        *)
(*   dict           a function whose DOMAIN is the set of keys present     *)
(***************************************************************************)
EXTENDS Integers, Sequences, FiniteSets, TLC

VARIABLES
    OPENAI_API_KEY,   \* the environment variable: <<>> unset, <<k>> set to k
    openai_client,    \* the module-level client: <<>> not built, <<[api_key |-> ..]>>
    pc,               \* position of the process
    exit_code,        \* <<>> while running, <<n>> once the process has ended
    printed,          \* the diagnostics and banners the process has written
    sent,             \* number of requests the peer has written to the stream
    received,         \* number of requests the server has read from the stream
    eof,              \* the peer has closed the stream
    inflight,         \* requests whose handler waits for its backend call
    backend_calls,    \* number of backend calls issued so far
    responses,        \* what was emitted, in order: [id, kind, isError]
    escaped,          \* ids of requests whose failure left handle_call_tool
    dropped,          \* ids of requests whose envelope the closed stream lost
    catalogs,         \* the distinct results list_tools has returned
    n_list,           \* number of list_tools requests served
    last,             \* the call_tool cycle that has just finished, <<>> if none
    interrupted,      \* ids, among the cycles in view, in flight when the peer closed
    seen,             \* the envelopes the probe request has received so far
    market_data,      \* the PolygonMarketData object: <<>> or <<[api_key, base_url]>>
    api_key_arg,      \* the api_key argument its constructor was given
    http_request,     \* the last requests.get it made: <<>> or <<[url, params]>>
    returned,         \* what its last method call returned
    fetches           \* number of method calls made on it

market_vars == <<market_data, api_key_arg, http_request, returned, fetches>>

vars == <<OPENAI_API_KEY, openai_client, pc, exit_code, printed, sent, received,
          eof, inflight, backend_calls, responses, escaped, dropped, catalogs,
          n_list, last, interrupted, seen, market_vars>>

-----------------------------------------------------------------------------
(* Bounds of the model *)

MaxRequests == 3

-----------------------------------------------------------------------------
(* Python helpers *)

None == <<>>

Some(s) == <<s>>

\* dict.get(key, default)
Get(arguments, key, default) ==
    IF key \in DOMAIN arguments THEN arguments[key] ELSE default

\* str(x) / f"{x}" of an Optional[str]
Str(opt) == IF opt = None THEN "None" ELSE opt[1]

EmptyArgs == [k \in {} |-> ""]

-----------------------------------------------------------------------------
(* The values a handler can end with *)

\* CallToolResult(content=[TextContent(type="text", text=text)], isError=isError)
CallToolResult(text, isError) ==
    [raised |-> FALSE, exc |-> "",
     content |-> <<[type |-> "text", text |-> text]>>, isError |-> isError]

\* an exception leaving the function
Raise(msg) ==
    [raised |-> TRUE, exc |-> msg, content |-> <<>>, isError |-> FALSE]

\* response.choices[0] / response.data[0] on an empty list
IndexErrorText == "list index out of range"

\* TextContent(text=None) is rejected by the model's validation
ValidationErrorText == "1 validation error for TextContent"

\* The backend's answers to one call: it raises, or it returns a response
\* whose list of choices (or images) is empty, or whose first element carries
\* an Optional[str] payload (message.content or url).
Raised(msg) == [kind |-> "raise", msg |-> msg, payload |-> None]

EmptyList == [kind |-> "empty", msg |-> "", payload |-> None]

Returned(payload) == [kind |-> "ok", msg |-> "", payload |-> payload]

-----------------------------------------------------------------------------
(* handle_list_tools: the catalog is rebuilt from literals on every call *)

\* the tools=[...] literal
ToolCatalog ==
    << [name |-> "chat_completion",
        description |-> "Send a message to OpenAI's chat completion API",
        inputSchema |->
          [type |-> "object",
           properties |->
             [message |-> [type |-> "string",
                           description |-> "The message to send to OpenAI"],
              model |-> [type |-> "string",
                         description |-> "The OpenAI model to use (default: gpt-3.5-turbo)",
                         default |-> "gpt-3.5-turbo"],
              max_tokens |-> [type |-> "integer",
                              description |-> "Maximum tokens to generate",
                              default |-> 1000]],
           required |-> <<"message">>]],
       [name |-> "generate_image",
        description |-> "Generate an image using OpenAI's DALL-E API",
        inputSchema |->
          [type |-> "object",
           properties |->
             [prompt |-> [type |-> "string",
                          description |-> "The prompt for image generation"],
              size |-> [type |-> "string",
                        description |-> "Image size (1024x1024, 1792x1024, 1024x1792)",
                        default |-> "1024x1024"],
              quality |-> [type |-> "string",
                           description |-> "Image quality (standard, hd)",
                           default |-> "standard"]],
           required |-> <<"prompt">>]],
       [name |-> "analyze_text",
        description |-> "Analyze text using OpenAI's API",
        inputSchema |->
          [type |-> "object",
           properties |->
             [text |-> [type |-> "string",
                        description |-> "The text to analyze"],
              analysis_type |-> [type |-> "string",
                                 description |-> "Type of analysis (sentiment, summary, keywords)",
                                 default |-> "summary"]],
           required |-> <<"text">>]] >>

\* a catalog kept in one shared list that serving a request consumes
handle_list_tools_shared == SubSeq(ToolCatalog, 1, 3 - n_list)

handle_list_tools == ToolCatalog

-----------------------------------------------------------------------------
(* The handlers.  X_call is the backend call the handler issues for an      *)
(* argument bundle; X_try is what the body of its try block ends with for   *)
(* the backend's answer; handle_X adds the except clause.                   *)

\* the clause missing: the failure leaves the handler
ExceptMissing(result, prefix) == result

\* the clause without str(e)
ExceptWithoutMessage(result, prefix) ==
    IF result.raised THEN CallToolResult(prefix, TRUE) ELSE result

\* the clause reporting how many backend calls the process has made
ExceptCounting(result, prefix) ==
    IF result.raised
      THEN CallToolResult(prefix \o result.exc \o
                             (IF backend_calls > 1 THEN " (again)" ELSE ""), TRUE)
      ELSE result

\* except Exception as e: return CallToolResult(text=f"{prefix}{str(e)}", isError=True)
Except(result, prefix) ==
    IF result.raised THEN CallToolResult(prefix \o result.exc, TRUE) ELSE result

\* the call with the token limit of the analysis handler as default
chat_completion_call_500(arguments) ==
    [api |-> "chat.completions.create",
     model |-> Get(arguments, "model", "gpt-3.5-turbo"),
     messages |-> <<[role |-> "user", content |-> Get(arguments, "message", "")]>>,
     max_tokens |-> Get(arguments, "max_tokens", 500)]

chat_completion_call(arguments) ==
    [api |-> "chat.completions.create",
     model |-> Get(arguments, "model", "gpt-3.5-turbo"),
     messages |-> <<[role |-> "user", content |-> Get(arguments, "message", "")]>>,
     max_tokens |-> Get(arguments, "max_tokens", 1000)]

\* the body treating an empty completion as a failure (if not content: raise)
chat_completion_try_rejecting_empty(arguments, answer) ==
    IF answer.kind = "raise" THEN Raise(answer.msg)
    ELSE IF answer.kind = "empty" THEN Raise(IndexErrorText)
    ELSE IF answer.payload \in {None, Some("")} THEN Raise("empty completion")
    ELSE CallToolResult(answer.payload[1], FALSE)

\* content = response.choices[0].message.content; CallToolResult(text=content)
chat_completion_try(arguments, answer) ==
    IF answer.kind = "raise" THEN Raise(answer.msg)
    ELSE IF answer.kind = "empty" THEN Raise(IndexErrorText)
    ELSE IF answer.payload = None THEN Raise(ValidationErrorText)
    ELSE CallToolResult(answer.payload[1], FALSE)

handle_chat_completion(arguments, answer) ==
    Except(chat_completion_try(arguments, answer), "Error in chat completion: ")

\* the call falling back to quality "hd"
generate_image_call_hd(arguments) ==
    [api |-> "images.generate",
     model |-> "dall-e-3",
     prompt |-> Get(arguments, "prompt", ""),
     size |-> Get(arguments, "size", "1024x1024"),
     quality |-> Get(arguments, "quality", "hd"),
     n |-> 1]

\* prompt, size, quality = arguments.get(...); openai_client.images.generate(...)
generate_image_call(arguments) ==
    [api |-> "images.generate",
     model |-> "dall-e-3",
     prompt |-> Get(arguments, "prompt", ""),
     size |-> Get(arguments, "size", "1024x1024"),
     quality |-> Get(arguments, "quality", "standard"),
     n |-> 1]

\* image_url = response.data[0].url; text=f"Generated image: {image_url}"
generate_image_try(arguments, answer) ==
    IF answer.kind = "raise" THEN Raise(answer.msg)
    ELSE IF answer.kind = "empty" THEN Raise(IndexErrorText)
    ELSE CallToolResult("Generated image: " \o Str(answer.payload), FALSE)

handle_generate_image(arguments, answer) ==
    Except(generate_image_try(arguments, answer), "Error generating image: ")

\* the chain with summary as a tested branch and keywords as the fallback
analyze_text_prompt_keywords_last(analysis_type, text) ==
    IF analysis_type = "sentiment"
      THEN "Analyze the sentiment of this text: " \o text
    ELSE IF analysis_type = "summary"
      THEN "Provide a brief summary of this text: " \o text
    ELSE "Extract key keywords from this text: " \o text

\* the if/elif/else over analysis_type
analyze_text_prompt(analysis_type, text) ==
    IF analysis_type = "sentiment"
      THEN "Analyze the sentiment of this text: " \o text
    ELSE IF analysis_type = "keywords"
      THEN "Extract key keywords from this text: " \o text
    ELSE "Provide a brief summary of this text: " \o text

\* the call taking model and max_tokens from the bundle, as chat_completion does
analyze_text_call_model_from_arguments(arguments) ==
    [api |-> "chat.completions.create",
     model |-> Get(arguments, "model", "gpt-3.5-turbo"),
     messages |->
       <<[role |-> "user",
          content |-> analyze_text_prompt(Get(arguments, "analysis_type", "summary"),
                                          Get(arguments, "text", ""))]>>,
     max_tokens |-> Get(arguments, "max_tokens", 500)]

\* text, analysis_type = arguments.get(...); openai_client.chat.completions.create(...)
analyze_text_call(arguments) ==
    [api |-> "chat.completions.create",
     model |-> "gpt-3.5-turbo",
     messages |->
       <<[role |-> "user",
          content |-> analyze_text_prompt(Get(arguments, "analysis_type", "summary"),
                                          Get(arguments, "text", ""))]>>,
     max_tokens |-> 500]

analyze_text_try(arguments, answer) ==
    IF answer.kind = "raise" THEN Raise(answer.msg)
    ELSE IF answer.kind = "empty" THEN Raise(IndexErrorText)
    ELSE IF answer.payload = None THEN Raise(ValidationErrorText)
    ELSE CallToolResult(answer.payload[1], FALSE)

handle_analyze_text(arguments, answer) ==
    Except(analyze_text_try(arguments, answer), "Error analyzing text: ")

-----------------------------------------------------------------------------
(* handle_call_tool: the if/elif chain over the tool name *)

\* the chain comparing names without regard to case
RouteIgnoringCase(name) ==
    IF name \in {"chat_completion", "Chat_completion"} THEN "handle_chat_completion"
    ELSE IF name = "generate_image" THEN "handle_generate_image"
    ELSE IF name = "analyze_text" THEN "handle_analyze_text"
    ELSE "else"

\* the chain without its analyze_text branch
RouteWithoutAnalyze(name) ==
    IF name = "chat_completion" THEN "handle_chat_completion"
    ELSE IF name = "generate_image" THEN "handle_generate_image"
    ELSE "else"

\* which branch of the chain a name takes
Route(name) ==
    IF name = "chat_completion" THEN "handle_chat_completion"
    ELSE IF name = "generate_image" THEN "handle_generate_image"
    ELSE IF name = "analyze_text" THEN "handle_analyze_text"
    ELSE "else"

\* the chain refusing a bundle that lacks the tool's required field
handle_call_tool_call_validating(name, arguments) ==
    IF Route(name) = "handle_chat_completion" /\ "message" \in DOMAIN arguments
      THEN <<chat_completion_call(arguments)>>
    ELSE IF Route(name) = "handle_generate_image" /\ "prompt" \in DOMAIN arguments
      THEN <<generate_image_call(arguments)>>
    ELSE IF Route(name) = "handle_analyze_text" /\ "text" \in DOMAIN arguments
      THEN <<analyze_text_call(arguments)>>
    ELSE <<>>

\* the analysis handler issuing its completion call a second time
handle_call_tool_call_twice(name, arguments) ==
    IF Route(name) = "handle_chat_completion" THEN <<chat_completion_call(arguments)>>
    ELSE IF Route(name) = "handle_generate_image" THEN <<generate_image_call(arguments)>>
    ELSE IF Route(name) = "handle_analyze_text"
      THEN <<analyze_text_call(arguments), analyze_text_call(arguments)>>
    ELSE <<>>

\* the backend call made while handling (name, arguments): none or one
handle_call_tool_call(name, arguments) ==
    IF Route(name) = "handle_chat_completion" THEN <<chat_completion_call(arguments)>>
    ELSE IF Route(name) = "handle_generate_image" THEN <<generate_image_call(arguments)>>
    ELSE IF Route(name) = "handle_analyze_text" THEN <<analyze_text_call(arguments)>>
    ELSE <<>>

\* what handle_call_tool ends with; answer is the backend's answer to the call
handle_call_tool(name, arguments, answer) ==
    IF Route(name) = "handle_chat_completion" THEN handle_chat_completion(arguments, answer)
    ELSE IF Route(name) = "handle_generate_image" THEN handle_generate_image(arguments, answer)
    ELSE IF Route(name) = "handle_analyze_text" THEN handle_analyze_text(arguments, answer)
    ELSE CallToolResult("Unknown tool: " \o name, TRUE)

-----------------------------------------------------------------------------
(* The inputs the environment can supply *)

\* the environment variable at process start
KeyValues == {None, Some(""), Some("sk-test")}

\* tool names a peer may send: the three routed ones and two that are not
ToolNames ==
    {"chat_completion", "generate_image", "analyze_text",
     "nonexistent_tool", "Chat_completion"}

\* argument bundles a peer may send
ArgBundles ==
    {EmptyArgs,
     [message |-> "hi"],
     [message |-> "hi", model |-> "gpt-4"],
     [message |-> "hi", model |-> "gpt-4", max_tokens |-> 5],
     [prompt |-> "cat"],
     [prompt |-> "cat", quality |-> "hd"],
     [prompt |-> "cat", size |-> "1792x1024", quality |-> "hd",
      model |-> "dall-e-2", n |-> 2],
     [text |-> "good"],
     [text |-> "good", analysis_type |-> "sentiment"],
     [text |-> "good", analysis_type |-> "keywords"],
     [text |-> "good", analysis_type |-> "bogus"],
     [text |-> "good", analysis_type |-> "summary",
      model |-> "gpt-4", max_tokens |-> 5]}

\* what the backend may answer to a call
Answers ==
    {Raised("rate limit"), EmptyList,
     Returned(None), Returned(Some("")), Returned(Some("Hello"))}

-----------------------------------------------------------------------------
(* Process start *)

\* if os.getenv("OPENAI_API_KEY") is None
KeyIsNone(key) == key = None

\* if not os.getenv("OPENAI_API_KEY")
KeyMissing(key) == key = None \/ key = Some("")

Init ==
    /\ OPENAI_API_KEY \in KeyValues
    /\ openai_client = None
    /\ pc = "import"
    /\ exit_code = None
    /\ printed = <<>>
    /\ sent = 0
    /\ received = 0
    /\ eof = FALSE
    /\ inflight = {}
    /\ backend_calls = 0
    /\ responses = <<>>
    /\ escaped = {}
    /\ dropped = {}
    /\ catalogs = {}
    /\ n_list = 0
    /\ last = <<>>
    /\ interrupted = {}
    /\ seen = {}
    /\ market_data = None
    /\ api_key_arg = None
    /\ http_request = <<>>
    /\ returned = "nothing"
    /\ fetches = 0

serving_vars == <<sent, received, eof, inflight, backend_calls, responses,
                  escaped, dropped, catalogs, n_list, last, interrupted, seen>>

\* openai_client = openai.OpenAI(api_key=os.getenv("OPENAI_API_KEY")) at import.
\* With no key at all the library's constructor may refuse (the import then
\* dies with a traceback) or may build a client without a key.
LoadModule ==
    /\ pc = "import"
    /\ \/ /\ openai_client' = Some([api_key |-> OPENAI_API_KEY])
          /\ pc' = "main"
          /\ UNCHANGED <<exit_code, printed>>
       \/ /\ OPENAI_API_KEY = None
          /\ pc' = "exited"
          /\ exit_code' = Some(1)
          /\ printed' = Append(printed, "Traceback: OpenAIError")
          /\ UNCHANGED openai_client
    /\ UNCHANGED <<OPENAI_API_KEY, serving_vars, market_vars>>

\* main() up to the banner: the credential check
Main ==
    /\ pc = "main"
    /\ IF KeyMissing(OPENAI_API_KEY)
         THEN /\ printed' = printed \o
                   <<"Error: OPENAI_API_KEY environment variable is not set",
                     "Please set your OpenAI API key in the .env file or environment">>
              /\ exit_code' = Some(1)
              /\ pc' = "exited"
         ELSE /\ printed' = Append(printed, "Starting OpenAI MCP Server...")
              /\ pc' = "handshake"
              /\ UNCHANGED exit_code
    /\ UNCHANGED <<OPENAI_API_KEY, openai_client, serving_vars, market_vars>>

\* server.run: the initialization exchange, which the peer completes or breaks
Handshake ==
    /\ pc = "handshake"
    /\ \/ /\ pc' = "serving"
          /\ UNCHANGED <<exit_code, printed>>
       \/ /\ pc' = "exited"
          /\ exit_code' = Some(1)
          /\ printed' = Append(printed, "Traceback: handshake")
    /\ UNCHANGED <<OPENAI_API_KEY, openai_client, serving_vars, market_vars>>

-----------------------------------------------------------------------------
(* The peer *)

PeerSend ==
    /\ pc # "exited"
    /\ ~eof
    /\ sent < MaxRequests
    /\ sent' = sent + 1
    /\ UNCHANGED <<OPENAI_API_KEY, openai_client, pc, exit_code, printed, received,
                   eof, inflight, backend_calls, responses, escaped, dropped,
                   catalogs, n_list, last, interrupted, seen, market_vars>>

PeerClose ==
    /\ pc # "exited"
    /\ ~eof
    /\ eof' = TRUE
    /\ interrupted' = {r.id : r \in inflight}
    /\ UNCHANGED <<OPENAI_API_KEY, openai_client, pc, exit_code, printed, sent,
                   received, inflight, backend_calls, responses, escaped, dropped,
                   catalogs, n_list, last, seen, market_vars>>

-----------------------------------------------------------------------------
(* The dispatch loop *)

\* requests handled as soon as server.run has been entered
ServingDuringHandshake == pc \in {"handshake", "serving"}

\* requests are handled inside server.run, once its initialization exchange
\* has completed
Serving == pc = "serving"

\* handlers that await their backend call leave the loop free meanwhile
LoopFreeWhileAwaiting == TRUE

\* The backend calls are synchronous calls inside the coroutine: from the
\* moment a handler starts until it returns, the event loop runs nothing else.
LoopFree == inflight = {}

\* the request and answer whose envelopes are kept for comparison across
\* the run
Probe(name, arguments, answer) ==
    /\ name = "chat_completion"
    /\ arguments = [message |-> "hi"]
    /\ answer = <<Raised("rate limit")>>

\* the handler's result reaches the framework: an envelope is written to the
\* stream (a stream the peer has closed may lose it), a failure is not
Finish(id, name, arguments, call, answer, result) ==
    /\ last' = <<[id |-> id, name |-> name, arguments |-> arguments,
                  call |-> call, answer |-> answer, result |-> result]>>
    /\ seen' = IF Probe(name, arguments, answer)
                 THEN LET e == [name |-> name, arguments |-> arguments,
                                answer |-> answer, result |-> result,
                                again |-> FALSE]
                      IN  IF e \in seen
                            THEN (seen \ {e}) \cup {[e EXCEPT !.again = TRUE]}
                          ELSE IF [e EXCEPT !.again = TRUE] \in seen
                            THEN seen
                          ELSE seen \cup {e}
                 ELSE seen
    /\ IF result.raised
         THEN /\ escaped' = escaped \cup {id}
              /\ UNCHANGED <<responses, dropped>>
         ELSE /\ UNCHANGED escaped
              /\ \/ /\ responses' = Append(responses,
                                           [id |-> id, kind |-> "call_tool",
                                            isError |-> result.isError])
                    /\ UNCHANGED dropped
                 \/ /\ eof
                    /\ dropped' = dropped \cup {id}
                    /\ UNCHANGED responses

ListTools ==
    /\ Serving
    /\ received < sent
    /\ LoopFree
    /\ received' = received + 1
    /\ n_list' = n_list + 1
    /\ catalogs' = catalogs \cup {handle_list_tools}
    /\ responses' = Append(responses, [id |-> received + 1, kind |-> "list_tools",
                                       isError |-> FALSE])
    /\ last' = <<>>
    /\ interrupted' = {}
    /\ UNCHANGED <<OPENAI_API_KEY, openai_client, pc, exit_code, printed, sent, eof,
                   inflight, backend_calls, escaped, dropped, seen, market_vars>>

\* a call_tool request is read and its handler runs up to the backend call,
\* or to its end when the name is not routed
CallTool(name, arguments) ==
    /\ Serving
    /\ received < sent
    /\ LoopFree
    /\ received' = received + 1
    /\ LET call == handle_call_tool_call(name, arguments) IN
         IF call = <<>>
           THEN /\ Finish(received + 1, name, arguments, <<>>, <<>>,
                          handle_call_tool(name, arguments, EmptyList))
                /\ UNCHANGED <<inflight, backend_calls>>
           ELSE /\ inflight' = inflight \cup
                      {[id |-> received + 1, name |-> name,
                        arguments |-> arguments, call |-> call]}
                /\ backend_calls' = backend_calls + Len(call)
                /\ last' = <<>>
                /\ UNCHANGED <<responses, escaped, dropped, seen>>
    /\ interrupted' = {}
    /\ UNCHANGED <<OPENAI_API_KEY, openai_client, pc, exit_code, printed, sent, eof,
                   catalogs, n_list, market_vars>>

\* the backend answers and the handler runs to its end
BackendAnswer(r, answer) ==
    /\ pc = "serving"
    /\ r \in inflight
    /\ inflight' = inflight \ {r}
    /\ Finish(r.id, r.name, r.arguments, r.call, <<answer>>,
              handle_call_tool(r.name, r.arguments, answer))
    /\ UNCHANGED <<OPENAI_API_KEY, openai_client, pc, exit_code, printed, sent,
                   received, eof, backend_calls, catalogs, n_list, interrupted,
                   market_vars>>

\* a loop that ends as soon as no request is waiting
StreamClosedWhenIdle ==
    /\ pc = "serving"
    /\ received = sent
    /\ LoopFree
    /\ pc' = "exited"
    /\ exit_code' = Some(0)
    /\ UNCHANGED <<OPENAI_API_KEY, openai_client, printed, serving_vars, market_vars>>

\* the loop reads end-of-stream after the last request: server.run returns
StreamClosed ==
    /\ pc = "serving"
    /\ eof
    /\ received = sent
    /\ LoopFree
    /\ pc' = "exited"
    /\ exit_code' = Some(0)
    /\ UNCHANGED <<OPENAI_API_KEY, openai_client, printed, serving_vars, market_vars>>

Next ==
    \/ LoadModule
    \/ Main
    \/ Handshake
    \/ PeerSend
    \/ PeerClose
    \/ ListTools
    \/ \E name \in ToolNames, arguments \in ArgBundles : CallTool(name, arguments)
    \/ \E r \in inflight, answer \in Answers : BackendAnswer(r, answer)
    \/ StreamClosed

Spec == Init /\ [][Next]_vars

-----------------------------------------------------------------------------
(* market_data.py: the PolygonMarketData client, a program of its own *)

MaxFetches == 3

\* the variables of the server process, which this program leaves alone
\* (it shares only the notion of standard output, printed)
server_vars == <<OPENAI_API_KEY, openai_client, pc, exit_code, serving_vars>>

DemoKey == "QztWYDSNjj7NDdc4NsVOofjC6_RA8Ywg"

ApiKeys == {None, Some("my-key"), Some(DemoKey)}

Symbols == {"AAPL", "TSLA"}

Timespans == {"day", "hour"}

\* what requests.get / raise_for_status / json do: raise a RequestException,
\* or return a body with or without "results"
HttpOutcomes == {"RequestException", "results", "no results"}

\* PolygonMarketData(api_key): the argument is not read
PolygonMarketData(api_key) ==
    /\ market_data = None
    /\ api_key_arg' = api_key
    /\ market_data' = Some([api_key  |-> DemoKey,
                            base_url |-> "https://api.polygon.io"])
    /\ UNCHANGED <<server_vars, printed, http_request, returned, fetches>>

\* response = requests.get(url, params=params) and what follows it in the
\* four methods that return the parsed body
Fetch(url, params, outcome, what) ==
    /\ market_data # None
    /\ fetches < MaxFetches
    /\ fetches' = fetches + 1
    /\ http_request' = <<[url |-> url, params |-> params]>>
    /\ IF outcome = "RequestException"
         THEN /\ printed' = Append(printed, "Error fetching " \o what)
              /\ returned' = "None"
         ELSE /\ printed' = printed
              /\ returned' = "json"
    /\ UNCHANGED <<server_vars, market_data, api_key_arg>>

get_real_time_quote(symbol, outcome) ==
    /\ market_data # None
    /\ Fetch(market_data[1].base_url
                \o "/v2/snapshot/locale/us/markets/stocks/tickers/"
                \o symbol \o "/quote",
             [apiKey |-> market_data[1].api_key],
             outcome, "quote for " \o symbol)

get_historical_data(symbol, start_date, end_date, timespan, outcome) ==
    /\ market_data # None
    /\ fetches < MaxFetches
    /\ fetches' = fetches + 1
    /\ http_request' =
         <<[url    |-> market_data[1].base_url \o "/v2/aggs/ticker/" \o symbol
                          \o "/range/1/" \o timespan \o "/" \o start_date
                          \o "/" \o end_date,
            params |-> [apiKey   |-> market_data[1].api_key,
                        adjusted |-> "true",
                        sort     |-> "asc"]]>>
    /\ CASE outcome = "RequestException" ->
              /\ printed' = Append(printed,
                                   "Error fetching historical data for " \o symbol)
              /\ returned' = "None"
         [] outcome = "no results" ->
              /\ printed' = Append(printed, "No data found for " \o symbol)
              /\ returned' = "None"
         [] OTHER ->
              /\ printed' = printed
              /\ returned' = "DataFrame"
    /\ UNCHANGED <<server_vars, market_data, api_key_arg>>

get_market_status(outcome) ==
    /\ market_data # None
    /\ Fetch(market_data[1].base_url \o "/v1/marketstatus/now",
             [apiKey |-> market_data[1].api_key],
             outcome, "market status")

get_ticker_details(symbol, outcome) ==
    /\ market_data # None
    /\ Fetch(market_data[1].base_url \o "/v3/reference/tickers/" \o symbol,
             [apiKey |-> market_data[1].api_key],
             outcome, "ticker details for " \o symbol)

MarketNext ==
    \/ \E api_key \in ApiKeys : PolygonMarketData(api_key)
    \/ \E symbol \in Symbols, outcome \in HttpOutcomes :
          get_real_time_quote(symbol, outcome)
    \/ \E symbol \in Symbols, timespan \in Timespans, outcome \in HttpOutcomes :
          get_historical_data(symbol, "2024-01-01", "2024-01-31", timespan, outcome)
    \/ \E outcome \in HttpOutcomes : get_market_status(outcome)
    \/ \E symbol \in Symbols, outcome \in HttpOutcomes :
          get_ticker_details(symbol, outcome)

MarketSpec == Init /\ [][MarketNext]_vars

-----------------------------------------------------------------------------
(* Vocabulary of the properties *)

RegisteredNames == {"chat_completion", "generate_image", "analyze_text"}

\* sub in s
Contains(s, sub) ==
    \E i \in 1..(Len(s) - Len(sub) + 1) : SubSeq(s, i, i + Len(sub) - 1) = sub

\* s.startswith(pre)
StartsWith(s, pre) ==
    /\ Len(pre) <= Len(s)
    /\ SubSeq(s, 1, Len(pre)) = pre

\* the call_tool cycle that has just finished, as a set of at most one record
Finished == {last[i] : i \in DOMAIN last}

\* every call_tool cycle in view that has issued its backend call
Issued ==
    {[name |-> c.name, arguments |-> c.arguments, call |-> c.call[1]] :
        c \in {x \in inflight \cup Finished : x.call # <<>>}}

ResponseIds == {responses[i].id : i \in DOMAIN responses}

TextOf(result) == result.content[1].text

\* the backend returned a well-formed response for this tool
WellFormed(name, answer) ==
    /\ answer.kind = "ok"
    /\ name = "generate_image" \/ answer.payload # None

-----------------------------------------------------------------------------
(* C1: every call_tool request ends in exactly one ResultEnvelope, with     *)
(* isError=false and the handler's output or with isError=true and a        *)
(* diagnostic text, whatever the name, the arguments and the backend's      *)
(* answer (success, raised error, malformed response); no failure leaves    *)
(* handle_call_tool.                                                        *)
C1_ExactlyOneEnvelope ==
    /\ escaped = {}
    /\ \A c \in Finished :
         /\ ~c.result.raised
         /\ Len(c.result.content) = 1
         /\ c.result.content[1].type = "text"
         /\ c.result.isError \in BOOLEAN
         /\ c.result.isError => Len(TextOf(c.result)) > 0
         /\ ~c.result.isError =>
              /\ c.name \in RegisteredNames
              /\ c.answer # <<>>
              /\ c.answer[1].kind = "ok"
              /\ TextOf(c.result) =
                   IF c.name = "generate_image"
                     THEN "Generated image: " \o Str(c.answer[1].payload)
                     ELSE c.answer[1].payload[1]
    /\ \A id \in 1..received :
         Cardinality({i \in DOMAIN responses : responses[i].id = id})
           + Cardinality({r \in inflight : r.id = id})
           + Cardinality(dropped \cap {id}) = 1

\* a malformed backend response (no choices) has been turned into an envelope
C1_Witness ==
    \E c \in Finished :
       /\ c.answer = <<EmptyList>>
       /\ c.result.isError
       /\ c.id \in ResponseIds

-----------------------------------------------------------------------------
(* C2: a call_tool whose name is not exactly chat_completion,               *)
(* generate_image or analyze_text ends with isError=true and the single     *)
(* text block "Unknown tool: {name}", and the step that serves it makes no  *)
(* backend call.                                                            *)
C2_UnknownTool ==
    [][\A c \in {last'[i] : i \in DOMAIN last'} :
          (last' # last /\ c.name \notin RegisteredNames) =>
             /\ c.result.isError = TRUE
             /\ c.result.content = <<[type |-> "text", text |-> "Unknown tool: " \o c.name]>>
             /\ c.name = "nonexistent_tool" =>
                  TextOf(c.result) = "Unknown tool: nonexistent_tool"
             /\ c.call = <<>>
             /\ backend_calls' = backend_calls
             /\ inflight' = inflight]_vars

\* call_tool("nonexistent_tool", {}) has been answered
C2_Witness ==
    \E c \in Finished :
       /\ c.name = "nonexistent_tool"
       /\ c.arguments = EmptyArgs
       /\ TextOf(c.result) = "Unknown tool: nonexistent_tool"
       /\ backend_calls = 0

-----------------------------------------------------------------------------
(* C3: when the backend call of a registered tool raises, the envelope has  *)
(* isError=true and its text contains the backend's message; the process    *)
(* keeps serving (it ends only by the stream closing, with code 0), and a   *)
(* request served after a failed one gets the envelope its own backend      *)
(* answer calls for.                                                        *)
C3_BackendFailure ==
    /\ \A c \in Finished :
         (c.answer # <<>> /\ c.answer[1].kind = "raise") =>
            /\ c.result.isError
            /\ Contains(TextOf(c.result), c.answer[1].msg)
    /\ (pc = "exited" /\ received > 0) =>
         /\ exit_code = Some(0)
         /\ eof
         /\ received = sent
    /\ \A c \in Finished :
         (\E i \in DOMAIN responses : responses[i].isError /\ responses[i].id < c.id) =>
            /\ ~c.result.raised
            /\ c.answer # <<>> =>
                 c.result.isError = ~WellFormed(c.name, c.answer[1])
            /\ (c.answer # <<>> /\ c.answer[1] = Returned(Some("Hello"))) =>
                 Contains(TextOf(c.result), "Hello")

\* a request failed in the backend and a later one succeeded
C3_Witness ==
    /\ Len(responses) >= 2
    /\ responses[1].kind = "call_tool"
    /\ responses[1].isError
    /\ backend_calls >= 2
    /\ \E c \in Finished :
          /\ c.id > responses[1].id
          /\ c.answer = <<Returned(Some("Hello"))>>
          /\ ~c.result.isError

-----------------------------------------------------------------------------
(* C4: responses are emitted in the order of their requests; at most one    *)
(* request is in flight, and while a request is being processed every       *)
(* earlier request has already been answered, however long the backend      *)
(* takes.                                                                   *)
C4_Ordering ==
    /\ \A i, j \in DOMAIN responses : i < j => responses[i].id < responses[j].id
    /\ Cardinality(inflight) <= 1
    /\ \A r \in inflight :
         /\ r.id = received
         /\ \A j \in 1..(r.id - 1) : j \in ResponseIds \cup dropped
    /\ \A j \in 1..received :
         j \in ResponseIds \cup dropped \cup {r.id : r \in inflight}

\* the first request waits for its backend while two more wait in the stream,
\* none of them answered yet
C4_Witness ==
    /\ \E r \in inflight : r.id = 1
    /\ sent = 3
    /\ received = 1
    /\ responses = <<>>

-----------------------------------------------------------------------------
(* C5 (as stated): for every registered tool, call_tool with only the       *)
(* required field and a backend that answers successfully yields            *)
(* isError=false and a non-empty text block.                                *)

\* the bundle holding only the tool's required field
MinimalBundle(name) ==
    IF name = "chat_completion" THEN [message |-> "hi"]
    ELSE IF name = "generate_image" THEN [prompt |-> "cat"]
    ELSE [text |-> "good"]

\* finished cycles of a registered tool, minimal bundle, successful answer
MinimalSuccesses ==
    {c \in Finished :
        /\ c.name \in RegisteredNames
        /\ c.arguments = MinimalBundle(c.name)
        /\ c.answer # <<>>
        /\ c.answer[1].kind = "ok"
        /\ c.answer[1].payload # None}

C5_NonEmptyText ==
    \A c \in MinimalSuccesses :
       /\ ~c.result.raised
       /\ c.result.isError = FALSE
       /\ Len(c.result.content) = 1
       /\ Len(TextOf(c.result)) > 0

(* C5 (amended): such a call yields isError=false and exactly one text      *)
(* block; the text is non-empty whenever the text the backend returned is   *)
(* non-empty (always for generate_image), and an empty completion is passed *)
(* on as an empty text.                                                     *)
C5_TextAsReturned ==
    \A c \in MinimalSuccesses :
       /\ ~c.result.raised
       /\ c.result.isError = FALSE
       /\ Len(c.result.content) = 1
       /\ c.result.content[1].type = "text"
       /\ Len(c.answer[1].payload[1]) > 0 => Len(TextOf(c.result)) > 0
       /\ c.name = "generate_image" => Len(TextOf(c.result)) > 0
       /\ (c.name # "generate_image" /\ c.answer[1].payload[1] = "") =>
             TextOf(c.result) = ""

\* chat_completion({"message": "hi"}) answered with an empty completion
C5_Witness ==
    \E c \in MinimalSuccesses :
       /\ c.name = "chat_completion"
       /\ c.answer = <<Returned(Some(""))>>
       /\ c.result.isError = FALSE

-----------------------------------------------------------------------------
(* C6: an optional field that is absent reaches the backend as its          *)
(* documented default (chat_completion: model gpt-3.5-turbo, max_tokens     *)
(* 1000; generate_image: size 1024x1024, quality standard; analyze_text:    *)
(* analysis_type summary), and one that is present reaches it unchanged.    *)
C6_Defaults ==
    \A c \in Issued :
       /\ c.name = "chat_completion" =>
            /\ c.call.model = IF "model" \in DOMAIN c.arguments
                                THEN c.arguments.model ELSE "gpt-3.5-turbo"
            /\ c.call.max_tokens = IF "max_tokens" \in DOMAIN c.arguments
                                     THEN c.arguments.max_tokens ELSE 1000
       /\ c.name = "generate_image" =>
            /\ c.call.size = IF "size" \in DOMAIN c.arguments
                               THEN c.arguments.size ELSE "1024x1024"
            /\ c.call.quality = IF "quality" \in DOMAIN c.arguments
                                  THEN c.arguments.quality ELSE "standard"
       /\ (c.name = "analyze_text" /\ "analysis_type" \notin DOMAIN c.arguments) =>
            StartsWith(c.call.messages[1].content,
                       "Provide a brief summary of this text: ")
       /\ (c.name = "analyze_text" /\ "analysis_type" \in DOMAIN c.arguments
             /\ c.arguments.analysis_type = "sentiment") =>
            StartsWith(c.call.messages[1].content,
                       "Analyze the sentiment of this text: ")

\* chat_completion({"message": "hi"}) has called the backend with both defaults
C6_Witness ==
    \E c \in Issued :
       /\ c.name = "chat_completion"
       /\ c.arguments = [message |-> "hi"]
       /\ c.call.model = "gpt-3.5-turbo"
       /\ c.call.max_tokens = 1000

-----------------------------------------------------------------------------
(* C7: a call_tool for a registered tool without its required field is not  *)
(* rejected: the handler puts the empty string in its place, makes its      *)
(* backend call, and isError reflects the backend's answer alone.           *)

RequiredField(name) ==
    IF name = "chat_completion" THEN "message"
    ELSE IF name = "generate_image" THEN "prompt"
    ELSE "text"

C7_MissingRequired ==
    /\ \A c \in Issued :
         (c.name \in RegisteredNames /\ RequiredField(c.name) \notin DOMAIN c.arguments) =>
            /\ c.name = "chat_completion" => c.call.messages[1].content = ""
            /\ c.name = "generate_image" => c.call.prompt = ""
            /\ c.name = "analyze_text" =>
                 c.call.messages[1].content \in
                    {"Analyze the sentiment of this text: ",
                     "Extract key keywords from this text: ",
                     "Provide a brief summary of this text: "}
    /\ \A c \in Finished :
         (c.name \in RegisteredNames /\ RequiredField(c.name) \notin DOMAIN c.arguments) =>
            /\ c.call # <<>>
            /\ c.answer # <<>>
            /\ c.result.isError = ~WellFormed(c.name, c.answer[1])

\* analyze_text({}) has been served from a successful backend call
C7_Witness ==
    \E c \in Finished :
       /\ c.name = "analyze_text"
       /\ c.arguments = EmptyArgs
       /\ c.call # <<>>
       /\ c.answer = <<Returned(Some("Hello"))>>
       /\ c.result.isError = FALSE

-----------------------------------------------------------------------------
(* C8: analyze_text takes its template from analysis_type: sentiment gives  *)
(* "Analyze the sentiment of this text: ", keywords the keywords template,  *)
(* anything else (absent, summary, bogus) the summary template; the prompt  *)
(* sent to the backend is the template followed by the text.                *)
C8_Templates ==
    \A c \in Issued :
       c.name = "analyze_text" =>
          LET text == IF "text" \in DOMAIN c.arguments THEN c.arguments.text ELSE ""
              prompt == c.call.messages[1].content
          IN  /\ c.call.api = "chat.completions.create"
              /\ Len(c.call.messages) = 1
              /\ c.call.messages[1].role = "user"
              /\ IF "analysis_type" \notin DOMAIN c.arguments
                   THEN prompt = "Provide a brief summary of this text: " \o text
                 ELSE IF c.arguments.analysis_type = "sentiment"
                   THEN /\ StartsWith(prompt, "Analyze the sentiment of this text:")
                        /\ prompt = "Analyze the sentiment of this text: " \o text
                 ELSE IF c.arguments.analysis_type = "keywords"
                   THEN prompt = "Extract key keywords from this text: " \o text
                 ELSE prompt = "Provide a brief summary of this text: " \o text

\* analyze_text with analysis_type "bogus" has sent the summary prompt
C8_Witness ==
    \E c \in Issued :
       /\ c.name = "analyze_text"
       /\ "analysis_type" \in DOMAIN c.arguments
       /\ c.arguments.analysis_type = "bogus"
       /\ c.call.messages[1].content = "Provide a brief summary of this text: good"

-----------------------------------------------------------------------------
(* C9: list_tools returns the same ordered catalog after any sequence of    *)
(* list_tools and call_tool requests: every result equals the first one,    *)
(* in names, fields, required lists and declared defaults.                  *)
C9_CatalogStable ==
    /\ Cardinality(catalogs) <= 1
    /\ n_list > 0 => Cardinality(catalogs) = 1
    /\ \A c \in catalogs :
         /\ Len(c) = 3
         /\ <<c[1].name, c[2].name, c[3].name>> =
              <<"chat_completion", "generate_image", "analyze_text">>

\* list_tools, a failed call_tool, list_tools again
C9_Witness ==
    /\ Len(responses) = 3
    /\ responses[1].kind = "list_tools"
    /\ responses[2].kind = "call_tool"
    /\ responses[2].isError
    /\ responses[3].kind = "list_tools"
    /\ n_list = 2
    /\ backend_calls = 1

-----------------------------------------------------------------------------
(* C10: with OPENAI_API_KEY missing at process start the process never      *)
(* reaches the handshake or the dispatch loop, serves nothing, and ends     *)
(* with exit code 1 after printing a diagnostic of its own.                 *)
C10_MissingCredential ==
    OPENAI_API_KEY \in {None, Some("")} =>
       /\ pc \in {"import", "main", "exited"}
       /\ received = 0
       /\ responses = <<>>
       /\ backend_calls = 0
       /\ "Starting OpenAI MCP Server..." \notin {printed[i] : i \in DOMAIN printed}
       /\ "Traceback: handshake" \notin {printed[i] : i \in DOMAIN printed}
       /\ pc = "exited" =>
            /\ exit_code = Some(1)
            /\ printed # <<>>
       /\ (pc = "exited" /\ openai_client # None) =>
            printed[1] = "Error: OPENAI_API_KEY environment variable is not set"

\* the empty key has been refused by main()
C10_Witness ==
    /\ OPENAI_API_KEY = Some("")
    /\ pc = "exited"
    /\ exit_code = Some(1)
    /\ printed[1] = "Error: OPENAI_API_KEY environment variable is not set"

-----------------------------------------------------------------------------
(* C11: no list_tools or call_tool request is processed before the startup  *)
(* handshake has completed, and when the handshake fails the process exits  *)
(* without having processed any request.                                    *)

Printed == {printed[i] : i \in DOMAIN printed}

-----------------------------------------------------------------------------
(* C12: in steady state the loop ends only when the stream has closed: no   *)
(* step that serves a list_tools or call_tool request (whatever its name,   *)
(* arguments or backend answer) ends it, and the stream closing ends the    *)
(* process with exit code 0.                                                *)
C12_LoopEnds ==
    [][/\ (pc = "serving" /\ pc' # "serving") =>
            /\ eof
            /\ received = sent
            /\ inflight = {}
            /\ pc' = "exited"
            /\ exit_code' = Some(0)
            /\ <<received', responses', last', backend_calls', n_list'>> =
                 <<received, responses, last, backend_calls, n_list>>
       /\ (pc = "serving" /\
             <<received', responses', last', inflight', escaped', dropped'>> #
             <<received, responses, last, inflight, escaped, dropped>>) =>
            /\ pc' = "serving"
            /\ exit_code' = None]_vars

\* three requests, one of them failed, were served and then the stream
\* closed: exit code 0
C12_Witness ==
    /\ pc = "exited"
    /\ exit_code = Some(0)
    /\ eof
    /\ received = 3
    /\ \E i \in DOMAIN responses : responses[i].isError

-----------------------------------------------------------------------------
(* C13: serving a call_tool for a registered tool makes exactly one backend *)
(* call, at the start of its handler, and none when the backend answers     *)
(* (success or failure: no retry); serving list_tools or an unknown tool    *)
(* makes none.                                                              *)
C13_OneBackendCall ==
    [][/\ \A r \in inflight' \ inflight :
            /\ r.name \in RegisteredNames
            /\ Len(r.call) = 1
            /\ backend_calls' = backend_calls + 1
            /\ inflight' = inflight \cup {r}
       /\ inflight' \subseteq inflight => backend_calls' = backend_calls
       /\ received' # received =>
            \/ Cardinality(inflight' \ inflight) = 1
            \/ /\ backend_calls' = backend_calls
               /\ \/ n_list' = n_list + 1
                  \/ \E c \in {last'[i] : i \in DOMAIN last'} :
                        c.name \notin RegisteredNames /\ c.call = <<>>
       /\ \A c \in {last'[i] : i \in DOMAIN last'} :
            (last' # last /\ c.name \in RegisteredNames) =>
               /\ Len(c.call) = 1
               /\ Len(c.answer) = 1]_vars

\* one failed and one successful registered call, a list_tools and nothing
\* else: two backend calls
C13_Witness ==
    /\ Len(responses) = 3
    /\ responses[1].kind = "call_tool" /\ responses[1].isError
    /\ responses[2].kind = "list_tools"
    /\ responses[3].kind = "call_tool" /\ ~responses[3].isError
    /\ backend_calls = 2

-----------------------------------------------------------------------------
(* C14: a request whose backend call was pending when the stream closed is  *)
(* abandoned: its backend call is never answered to the handler, and no     *)
(* response for it is emitted.                                              *)
C14_Abandoned ==
    \A id \in interrupted :
        /\ id \notin ResponseIds
        /\ \A c \in Finished : c.id = id => c.answer = <<>>

-----------------------------------------------------------------------------
(* C15: a PolygonMarketData built with a non-None api_key sends that key as *)
(* apiKey on every request; the built-in demo key is sent only when it was  *)
(* built with api_key None.                                                 *)
C15_KeyUsed ==
    \A i \in DOMAIN http_request :
        /\ api_key_arg # None =>
              http_request[i].params.apiKey = api_key_arg[1]
        /\ http_request[i].params.apiKey = DemoKey =>
              api_key_arg \in {None, Some(DemoKey)}

-----------------------------------------------------------------------------
(* C16: the backend client is constructed once, at startup and only with a  *)
(* credential that is present (neither unset nor empty), from that          *)
(* credential; it is never replaced afterwards, by a handler or otherwise.  *)
C16_ClientOnce ==
    [][openai_client' # openai_client =>
          /\ openai_client = None
          /\ pc \in {"import", "main"}
          /\ ~KeyMissing(OPENAI_API_KEY)
          /\ openai_client' = Some([api_key |-> OPENAI_API_KEY])]_vars

-----------------------------------------------------------------------------
(* C17: a backend answer that is returned, not raised, but malformed (an    *)
(* empty choices/data list, or a null text payload) is answered with an     *)
(* isError=true envelope: never isError=false, never an escaping failure.   *)
Malformed(answer) ==
    \/ answer.kind = "empty"
    \/ answer.kind = "ok" /\ answer.payload = None

C17_MalformedIsError ==
    \A c \in Finished :
        (c.answer # <<>> /\ Malformed(c.answer[1])) =>
            /\ ~c.result.raised
            /\ c.id \notin escaped
            /\ c.result.isError

-----------------------------------------------------------------------------
(* C18: the names list_tools advertises are exactly the names that          *)
(* handle_call_tool routes to a handler: a request naming an advertised     *)
(* tool reaches its handler (it issues the backend call and is never        *)
(* answered "Unknown tool"), and a request that reaches a handler names an  *)
(* advertised tool.                                                         *)
Advertised(catalog) == {catalog[i].name : i \in DOMAIN catalog}

C18_AdvertisedIsRouted ==
    /\ \A catalog \in catalogs : Advertised(catalog) = Advertised(handle_list_tools)
    /\ \A c \in inflight \cup Finished :
          c.name \in Advertised(handle_list_tools) <=> c.call # <<>>
    /\ \A c \in Finished :
          /\ ~c.result.raised
          /\ IF c.name \in Advertised(handle_list_tools)
               THEN ~StartsWith(TextOf(c.result), "Unknown tool")
               ELSE TextOf(c.result) = "Unknown tool: " \o c.name

\* the catalog has been advertised and a request for its last tool has then
\* been answered by the handler
C18_Witness ==
    /\ catalogs # {}
    /\ \E c \in Finished :
          /\ c.name = "analyze_text"
          /\ c.call # <<>>
          /\ ~c.result.isError
          /\ c.id > 1

-----------------------------------------------------------------------------
(* C19: for every field whose advertised schema declares a default, a       *)
(* handler given a bundle without that field calls the backend exactly as   *)
(* if the field had been sent with the declared default; and a field that   *)
(* the tool's schema does not declare is not read: removing it from the     *)
(* bundle leaves the backend call as it was.                                *)
Properties(name) ==
    (CHOOSE d \in {handle_list_tools[i] : i \in DOMAIN handle_list_tools} :
        d.name = name).inputSchema.properties

With(arguments, key, value) ==
    [k \in DOMAIN arguments \cup {key} |->
        IF k = key THEN value ELSE arguments[k]]

Without(arguments, key) ==
    [k \in DOMAIN arguments \ {key} |-> arguments[k]]

C19_SchemaDefaults ==
    \A c \in Issued :
        /\ c.name \in Advertised(handle_list_tools)
        /\ \A f \in DOMAIN Properties(c.name) :
              ("default" \in DOMAIN Properties(c.name)[f]
                 /\ f \notin DOMAIN c.arguments) =>
                 handle_call_tool_call(
                     c.name, With(c.arguments, f, Properties(c.name)[f].default))
                   = <<c.call>>
        /\ \A k \in DOMAIN c.arguments \ DOMAIN Properties(c.name) :
              handle_call_tool_call(c.name, Without(c.arguments, k)) = <<c.call>>

\* analyze_text has called the backend for a bundle that leaves out
\* analysis_type and carries two fields its schema does not declare
C19_Witness ==
    \E c \in Issued :
        /\ c.name = "analyze_text"
        /\ c.arguments = [message |-> "hi", model |-> "gpt-4"]
        /\ c.call.model = "gpt-3.5-turbo"
        /\ StartsWith(c.call.messages[1].content, "Provide a brief summary")

-----------------------------------------------------------------------------
-----------------------------------------------------------------------------
(* C21: the backend call and the envelope of a request for an advertised    *)
(* tool are those of the same request with every key its schema does not    *)
(* declare removed from the bundle; analyze_text always calls the backend   *)
(* with model gpt-3.5-turbo and max_tokens 500, and generate_image with     *)
(* model dall-e-3 and n = 1, whatever model, max_tokens or n the bundle     *)
(* carries.                                                                 *)
Declared(name, arguments) ==
    [k \in DOMAIN arguments \cap DOMAIN Properties(name) |-> arguments[k]]

C21_UndeclaredIgnored ==
    /\ \A c \in Issued :
          /\ handle_call_tool_call(c.name, Declared(c.name, c.arguments)) = <<c.call>>
          /\ c.name = "analyze_text" =>
                c.call.model = "gpt-3.5-turbo" /\ c.call.max_tokens = 500
          /\ c.name = "generate_image" =>
                c.call.model = "dall-e-3" /\ c.call.n = 1
    /\ \A c \in Finished :
          (c.name \in Advertised(handle_list_tools) /\ c.answer # <<>>) =>
             handle_call_tool(c.name, Declared(c.name, c.arguments), c.answer[1])
                = c.result

\* analyze_text has been answered for a bundle that carries a model and a
\* max_tokens of its own, after calling the backend with the fixed ones
C21_Witness ==
    \E c \in Finished :
        /\ c.name = "analyze_text"
        /\ c.arguments = [text |-> "good", analysis_type |-> "summary",
                          model |-> "gpt-4", max_tokens |-> 5]
        /\ c.call[1].model = "gpt-3.5-turbo"
        /\ c.call[1].max_tokens = 500
        /\ ~c.result.isError

====
